---- MODULE Spec2Model ----
(***************************************************************************)
(* Provider storage and switching of the cc provider switcher.             *)
(*                                                                         *)
(* Two JSON files are modelled: the provider store (~/.cc/providers.json)  *)
(* and the live settings file (~/.claude/settings.json), together with the *)
(* temporary files the atomic write leaves next to them.  One process runs *)
(* one call of the storage API at a time; each await that touches the file *)
(* system is a step of its own, so that an I/O error or a kill of the      *)
(* process can fall between any two of them.                               *)
(***************************************************************************)
EXTENDS Integers, Sequences, FiniteSets, TLC

VARIABLES
    provFile,   \* content of providers.json (NoFile when it does not exist)
    liveFile,   \* content of settings.json (NoFile when it does not exist)
    tmpFiles,   \* temporary files: function from <<store, timestamp>> to content
    configDir,  \* TRUE when the directory ~/.cc exists
    clock,      \* the value Date.now() returns
    pc,         \* position of the process inside the running call
    mem,        \* locals of the running call
    result,     \* outcome of the call that just ended: what it returned or threw,
                \* and where; forgotten when the environment changes a file
    pre,        \* the files as they were when the running/last call started
    events      \* number of calls started and faults injected so far

vars == <<provFile, liveFile, tmpFiles, configDir, clock, pc, mem, result, pre, events>>

----------------------------------------------------------------------------
(* Bounds of the model *)

\* Calls started, clock ticks and faults (I/O errors, kills, corruptions) in one
\* behaviour.
MaxEvents == 4

----------------------------------------------------------------------------
(* Values *)

\* A file that does not exist, a file whose text is not JSON, a truncated file.
NoFile == [absent |-> TRUE]
Malformed == [malformed |-> TRUE]
Partial == [partial |-> TRUE]

IsJson(f) == f # NoFile /\ f # Malformed /\ f # Partial

\* JavaScript's undefined for an optional value v is <<>>, a defined one is <<v>>.
Undefined == <<>>
Some(v) == <<v>>

\* ClaudeSettings values (opaque JSON objects without undefined members).
S1 == [model |-> "m1"]
S2 == [model |-> "m2"]
S3 == [model |-> "m3"]
E1 == [model |-> "m1", extra |-> "user-edit"]

\* The outcomes of Math.random().toString(36).slice(2, 9).
RandomSuffixes == {"r0", "r1"}

RequiredKeys == {"id", "name", "settingsConfig"}
OptionalKeys == {"description", "category", "createdAt", "icon", "iconColor"}
ProviderKeys == RequiredKeys \cup OptionalKeys
MutableKeys == {"name", "settingsConfig", "description", "category", "icon", "iconColor"}

----------------------------------------------------------------------------
(* JSON: what JSON.stringify writes and what JSON.parse gives back *)

\* JSON.stringify of a Provider: a member whose value is undefined is left out.
StringifyProvider(p) ==
    [k \in RequiredKeys \cup {o \in OptionalKeys : p[o] # Undefined} |->
        IF k \in OptionalKeys THEN p[k][1] ELSE p[k]]

\* A parsed Provider: reading a member the text does not have gives undefined.
ParseProvider(d) ==
    [k \in ProviderKeys |->
        IF k \in OptionalKeys
        THEN (IF k \in DOMAIN d THEN Some(d[k]) ELSE Undefined)
        ELSE d[k]]

\* JSON.stringify(config, null, 2) of a ProvidersConfig.
StringifyConfig(c) ==
    LET ps == [i \in 1..Len(c.providers) |-> StringifyProvider(c.providers[i])]
    IN  IF c.currentProviderId = Undefined
        THEN [providers |-> ps]
        ELSE [providers |-> ps, currentProviderId |-> c.currentProviderId[1]]

\* JSON.parse of the text of providers.json.
ParseConfig(d) ==
    [providers |-> [i \in 1..Len(d.providers) |-> ParseProvider(d.providers[i])],
     currentProviderId |->
        IF "currentProviderId" \in DOMAIN d THEN Some(d.currentProviderId) ELSE Undefined]

\* JSON.stringify(settings, null, 2): a settings value has no undefined member.
StringifySettings(s) == s

----------------------------------------------------------------------------
(* Pure helpers of the storage code *)

\* `${Date.now()}-${Math.random().toString(36).slice(2, 9)}`
generateId(now, rnd) == <<now, rnd>>

\* Faulty variant of FindIndex: an id that is not found falls back to the first entry.
FindIndex_FallsBackToFirst(ps, id) ==
    IF \E i \in 1..Len(ps) : ps[i].id = id
    THEN CHOOSE i \in 1..Len(ps) : ps[i].id = id /\ \A j \in 1..(i - 1) : ps[j].id # id
    ELSE IF Len(ps) > 0 THEN 1 ELSE 0

\* Array.prototype.findIndex / find by id: the first match, 0 when there is none.
FindIndex(ps, id) ==
    IF \E i \in 1..Len(ps) : ps[i].id = id
    THEN CHOOSE i \in 1..Len(ps) : ps[i].id = id /\ \A j \in 1..(i - 1) : ps[j].id # id
    ELSE 0

\* Array.prototype.filter((p) => p.id !== id)
RECURSIVE FilterOut(_, _)
FilterOut(ps, id) ==
    IF ps = <<>> THEN <<>>
    ELSE IF Head(ps).id # id THEN <<Head(ps)>> \o FilterOut(Tail(ps), id)
    ELSE FilterOut(Tail(ps), id)

\* a ?? b
Coalesce(a, b) == IF a # Undefined THEN a ELSE b

\* The temporary path of an atomic write: the store's directory and prefix, and
\* the timestamp.
TmpPath(store, timestamp) == <<store, timestamp>>

\* Faulty variant of LoadProvidersOf: text that does not parse is read as no file.
LoadProvidersOf_MalformedIsEmpty(f) ==
    IF ~IsJson(f) THEN [ok |-> TRUE, config |-> [providers |-> <<>>, currentProviderId |-> Undefined]]
    ELSE [ok |-> TRUE, config |-> ParseConfig(f)]

\* Faulty variant of LoadProvidersOf: a missing file is an error.
LoadProvidersOf_AbsentFails(f) ==
    IF ~IsJson(f) THEN [ok |-> FALSE, error |-> "ParseError"]
    ELSE [ok |-> TRUE, config |-> ParseConfig(f)]

\* loadProviders / loadClaudeSettings on a file content.
LoadProvidersOf(f) ==
    IF f = NoFile THEN [ok |-> TRUE, config |-> [providers |-> <<>>, currentProviderId |-> Undefined]]
    ELSE IF ~IsJson(f) THEN [ok |-> FALSE, error |-> "ParseError"]
    ELSE [ok |-> TRUE, config |-> ParseConfig(f)]

\* Faulty variant of LoadSettingsOf: a missing file is read as an empty object.
LoadSettingsOf_AbsentIsEmpty(f) ==
    IF f = NoFile THEN [ok |-> TRUE, present |-> TRUE, settings |-> [model |-> "default"]]
    ELSE IF ~IsJson(f) THEN [ok |-> FALSE, error |-> "ParseError"]
    ELSE [ok |-> TRUE, present |-> TRUE, settings |-> f]

\* Faulty variant of LoadSettingsOf: a missing file is an error.
LoadSettingsOf_AbsentFails(f) ==
    IF ~IsJson(f) THEN [ok |-> FALSE, error |-> "ParseError"]
    ELSE [ok |-> TRUE, present |-> TRUE, settings |-> f]

LoadSettingsOf(f) ==
    IF f = NoFile THEN [ok |-> TRUE, present |-> FALSE]
    ELSE IF ~IsJson(f) THEN [ok |-> FALSE, error |-> "ParseError"]
    ELSE [ok |-> TRUE, present |-> TRUE, settings |-> f]

----------------------------------------------------------------------------
(* The in-memory part of each operation *)

\* Faulty variant of AppendProvider: the new provider is put in front.
AppendProvider_Prepends(config, input, id, now) ==
    LET newProvider == [k \in ProviderKeys |->
            CASE k = "id" -> id
              [] k = "createdAt" -> Some(now)
              [] OTHER -> input[k]]
    IN  [config EXCEPT !.providers = <<newProvider>> \o @]

\* addProvider: { ...provider, id: generateId(), createdAt: Date.now() } is pushed.
AppendProvider(config, input, id, now) ==
    LET newProvider == [k \in ProviderKeys |->
            CASE k = "id" -> id
              [] k = "createdAt" -> Some(now)
              [] OTHER -> input[k]]
    IN  [config EXCEPT !.providers = Append(@, newProvider)]

\* Faulty variant of UpdatedProvider: icon is taken from updates even when omitted.
UpdatedProvider_DropsOmittedIcon(existingProvider, updates) ==
    [id |-> existingProvider.id,
     name |-> IF updates.name # Undefined THEN updates.name[1] ELSE existingProvider.name,
     settingsConfig |-> IF updates.settingsConfig # Undefined
                        THEN updates.settingsConfig[1]
                        ELSE existingProvider.settingsConfig,
     description |-> Coalesce(updates.description, existingProvider.description),
     category |-> Coalesce(updates.category, existingProvider.category),
     createdAt |-> existingProvider.createdAt,
     icon |-> updates.icon,
     iconColor |-> Coalesce(updates.iconColor, existingProvider.iconColor)]

\* updateProvider: the record written at config.providers[index].
UpdatedProvider(existingProvider, updates) ==
    [id |-> existingProvider.id,
     name |-> IF updates.name # Undefined THEN updates.name[1] ELSE existingProvider.name,
     settingsConfig |-> IF updates.settingsConfig # Undefined
                        THEN updates.settingsConfig[1]
                        ELSE existingProvider.settingsConfig,
     description |-> Coalesce(updates.description, existingProvider.description),
     category |-> Coalesce(updates.category, existingProvider.category),
     createdAt |-> existingProvider.createdAt,
     icon |-> Coalesce(updates.icon, existingProvider.icon),
     iconColor |-> Coalesce(updates.iconColor, existingProvider.iconColor)]

\* Faulty variant of RemoveFrom: the pointer is never cleared.
RemoveFrom_KeepsPointer(config, id) ==
    [providers |-> FilterOut(config.providers, id),
     currentProviderId |-> config.currentProviderId]

\* Faulty variant of RemoveFrom: the test of the pointer is inverted.
RemoveFrom_InvertedTest(config, id) ==
    [providers |-> FilterOut(config.providers, id),
     currentProviderId |->
        IF config.currentProviderId # Some(id) THEN Undefined ELSE config.currentProviderId]

\* removeProvider: the filtered list, and the pointer cleared when it pointed at id.
RemoveFrom(config, id) ==
    [providers |-> FilterOut(config.providers, id),
     currentProviderId |->
        IF config.currentProviderId = Some(id) THEN Undefined ELSE config.currentProviderId]

\* Faulty variant of backfillCurrentProvider: the live settings are never stored.
backfillCurrentProvider_Skipped(config, live) == config

\* Faulty variant of backfillCurrentProvider: the live settings go into the first
\* provider of the list instead of the current one.
backfillCurrentProvider_IntoFirst(config, live) ==
    IF config.currentProviderId = Undefined THEN config
    ELSE LET i == FindIndex(config.providers, config.currentProviderId[1])
         IN  IF i = 0 THEN config
             ELSE IF ~live.present THEN config
             ELSE [config EXCEPT !.providers[1].settingsConfig = live.settings]

\* backfillCurrentProvider, given what readLiveSettings returned (a successful load).
backfillCurrentProvider(config, live) ==
    IF config.currentProviderId = Undefined THEN config
    ELSE LET i == FindIndex(config.providers, config.currentProviderId[1])
         IN  IF i = 0 THEN config
             ELSE IF ~live.present THEN config
             ELSE [config EXCEPT !.providers[i].settingsConfig = live.settings]

\* Faulty variant of TargetMissing: the target is never looked up.
TargetMissing_NeverChecked(config, id) == FALSE

\* switchProvider step 1: !targetProvider
TargetMissing(config, id) == FindIndex(config.providers, id) = 0

\* Faulty variant of NeedsBackfill: the backfill is entered whenever a provider is
\* current, also when it is the target.
NeedsBackfill_AlsoForTarget(config, id) == config.currentProviderId # Undefined

\* switchProvider step 2: is the backfill entered at all?
NeedsBackfill(config, id) ==
    config.currentProviderId # Undefined /\ config.currentProviderId[1] # id

\* backfillCurrentProvider reads the live file only past its two early returns.
BackfillReadsLive(config) ==
    /\ config.currentProviderId # Undefined
    /\ FindIndex(config.providers, config.currentProviderId[1]) # 0

----------------------------------------------------------------------------
(* Inputs of the calls *)

\* Omit<Provider, "id" | "createdAt"> values passed to addProvider.
AddInputs ==
    { [name |-> "a", settingsConfig |-> S1, description |-> Undefined,
       category |-> Undefined, icon |-> Undefined, iconColor |-> Undefined],
      [name |-> "b", settingsConfig |-> S2, description |-> Some("d"),
       category |-> Some("api"), icon |-> Some("i"), iconColor |-> Some("c")] }

\* The updates argument of updateProvider.
UpdateInputs ==
    { [name |-> Some("x"), settingsConfig |-> Undefined, description |-> Undefined,
       category |-> Undefined, icon |-> Undefined, iconColor |-> Undefined],
      [name |-> Undefined, settingsConfig |-> Some(S3), description |-> Some("d2"),
       category |-> Some("subscription"), icon |-> Some("i2"), iconColor |-> Some("c2")] }

\* The names passed to getProviderByName: a name add gives, and one it never gives.
LookupNames == {"a", "ghost"}

\* An id no provider has.
GhostId == <<0, "ghost">>

StoredIds == IF IsJson(provFile)
             THEN {provFile.providers[i].id : i \in 1..Len(provFile.providers)}
             ELSE {}

\* The ids a caller may pass: a stored one, one never stored, and the one just
\* passed to removeProvider (a repeated removal).
CallIds ==
    StoredIds \cup {GhostId}
        \cup (IF pc = "idle" /\ result.op = "removeProvider" THEN {result.arg} ELSE {})

----------------------------------------------------------------------------
(* The state machine *)

NoCall == [op |-> "none"]
NoFiles == [p \in {} |-> NoFile]
NoResult == [op |-> "none", status |-> "none"]

\* Where a call ended: the step, and for a step of atomicWrite the store, the
\* temporary path and whether the catch block's unlink failed.
At(step) == [step |-> step, store |-> "none"]
AtWrite(step, store, tmpPath, unlinkFailed) ==
    [step |-> step, store |-> store, tmpPath |-> tmpPath, unlinkFailed |-> unlinkFailed]

Init ==
    /\ provFile = NoFile
    /\ liveFile = NoFile
    /\ tmpFiles = NoFiles
    /\ configDir = FALSE
    /\ clock = 0
    /\ pc = "idle"
    /\ mem = NoCall
    /\ result = NoResult
    /\ pre = [prov |-> NoFile, live |-> NoFile, tmp |-> NoFiles]
    /\ events = 0

\* An I/O error, a kill or a corruption is injected.
Fault == events < MaxEvents /\ events' = events + 1

NoFault == events' = events

\* A call starts: the process is idle.  failed: the call's first readFile fails.
Starts(failed) ==
    /\ pc = "idle"
    /\ events + (IF failed THEN 2 ELSE 1) <= MaxEvents
    /\ events' = events + (IF failed THEN 2 ELSE 1)
    /\ pre' = [prov |-> provFile, live |-> liveFile, tmp |-> tmpFiles]
    /\ UNCHANGED clock

\* The call ends with an outcome.
Returns(op, arg, status, value, at) ==
    /\ pc' = "idle"
    /\ mem' = NoCall
    /\ result' = [op |-> op, arg |-> arg, status |-> status, value |-> value, at |-> at]

\* atomicWrite(path, data) is entered: timestamp = Date.now(), tmpPath is built.
EntersAtomicWrite(op, arg, config, store, now, data, next, value) ==
    /\ pc' = "aw_write"
    /\ mem' = [op |-> op, arg |-> arg, config |-> config, store |-> store,
               tmpPath |-> TmpPath(store, now), data |-> data, next |-> next,
               value |-> value, error |-> "none"]
    /\ UNCHANGED result

----------------------------------------------------------------------------
(* Provider store calls *)

\* addProvider(provider)
addProvider(input, rnd) ==
    \E failed \in BOOLEAN :
    /\ Starts(failed)
    /\ configDir' = TRUE
    /\ UNCHANGED <<provFile, liveFile, tmpFiles>>
    /\ IF failed
       THEN provFile # NoFile /\ Returns("addProvider", input, "IOError", Undefined, At("load"))
       ELSE LET loaded == LoadProvidersOf(provFile)
            IN  IF ~loaded.ok
                THEN Returns("addProvider", input, loaded.error, Undefined, At("load"))
                ELSE LET id == generateId(clock, rnd)
                         config == AppendProvider(loaded.config, input, id, clock)
                     IN  EntersAtomicWrite("addProvider", input, config, "providers", clock,
                             StringifyConfig(config), "return",
                             config.providers[Len(config.providers)])

\* updateProvider(id, updates)
updateProvider(id, updates) ==
    \E failed \in BOOLEAN :
    /\ Starts(failed)
    /\ configDir' = TRUE
    /\ UNCHANGED <<provFile, liveFile, tmpFiles>>
    /\ IF failed
       THEN /\ provFile # NoFile
            /\ Returns("updateProvider", <<id, updates>>, "IOError", Undefined, At("load"))
       ELSE LET loaded == LoadProvidersOf(provFile)
            IN  IF ~loaded.ok
                THEN Returns("updateProvider", <<id, updates>>, loaded.error, Undefined, At("load"))
                ELSE LET index == FindIndex(loaded.config.providers, id)
                     IN  IF index = 0
                         THEN Returns("updateProvider", <<id, updates>>, "ok", FALSE, At("lookup"))
                         ELSE LET config == [loaded.config EXCEPT !.providers[index] =
                                               UpdatedProvider(@, updates)]
                              IN  EntersAtomicWrite("updateProvider", <<id, updates>>,
                                      config, "providers", clock, StringifyConfig(config),
                                      "return", TRUE)

\* removeProvider(id)
removeProvider(id) ==
    \E failed \in BOOLEAN :
    /\ Starts(failed)
    /\ configDir' = TRUE
    /\ UNCHANGED <<provFile, liveFile, tmpFiles>>
    /\ IF failed
       THEN provFile # NoFile /\ Returns("removeProvider", id, "IOError", Undefined, At("load"))
       ELSE LET loaded == LoadProvidersOf(provFile)
            IN  IF ~loaded.ok
                THEN Returns("removeProvider", id, loaded.error, Undefined, At("load"))
                ELSE LET config == RemoveFrom(loaded.config, id)
                     IN  IF Len(config.providers) < Len(loaded.config.providers)
                         THEN EntersAtomicWrite("removeProvider", id, config, "providers",
                                  clock, StringifyConfig(config), "return", TRUE)
                         ELSE Returns("removeProvider", id, "ok", FALSE, At("lookup"))

\* Array.prototype.find((p) => p.name === name): the first match, 0 when none.
FindIndexByName(ps, name) ==
    IF \E i \in 1..Len(ps) : ps[i].name = name
    THEN CHOOSE i \in 1..Len(ps) : ps[i].name = name /\ \A j \in 1..(i - 1) : ps[j].name # name
    ELSE 0

\* What a read-only lookup returns: the provider at index, undefined for index 0.
Found(ps, index) == IF index = 0 THEN Undefined ELSE Some(ps[index])

\* What each read-only operation looks up in the loaded config.
LookUp(op, arg, config) ==
    CASE op = "getProvider" ->
            Found(config.providers, FindIndex(config.providers, arg))
      [] op = "getProviderByName" ->
            Found(config.providers, FindIndexByName(config.providers, arg))
      [] op = "getCurrentProvider" ->
            IF config.currentProviderId = Undefined THEN Undefined
            ELSE Found(config.providers,
                       FindIndex(config.providers, config.currentProviderId[1]))

\* A read-only operation: loadProviders, then a lookup in the loaded config.
ReadOnly(op, arg) ==
    \E failed \in BOOLEAN :
    /\ Starts(failed)
    /\ configDir' = TRUE
    /\ UNCHANGED <<provFile, liveFile, tmpFiles>>
    /\ IF failed
       THEN provFile # NoFile /\ Returns(op, arg, "IOError", Undefined, At("load"))
       ELSE LET loaded == LoadProvidersOf(provFile)
            IN  IF ~loaded.ok
                THEN Returns(op, arg, loaded.error, Undefined, At("load"))
                ELSE Returns(op, arg, "ok", LookUp(op, arg, loaded.config), At("lookup"))

\* getProvider(id)
getProvider(id) == ReadOnly("getProvider", id)

\* getProviderByName(name)
getProviderByName(name) == ReadOnly("getProviderByName", name)

\* getCurrentProvider()
getCurrentProvider == ReadOnly("getCurrentProvider", Undefined)

----------------------------------------------------------------------------
(* Switch coordinator *)

\* switchProvider(id), up to the lookup of the target (lines 270-276).
switchProvider(id) ==
    \E failed \in BOOLEAN :
    /\ Starts(failed)
    /\ configDir' = TRUE
    /\ UNCHANGED <<provFile, liveFile, tmpFiles>>
    /\ IF failed
       THEN provFile # NoFile /\ Returns("switchProvider", id, "IOError", Undefined, At("load"))
       ELSE LET loaded == LoadProvidersOf(provFile)
            IN  IF ~loaded.ok
                THEN Returns("switchProvider", id, loaded.error, Undefined, At("load"))
                ELSE IF TargetMissing(loaded.config, id)
                THEN Returns("switchProvider", id, "NotFound", Undefined, At("lookup"))
                ELSE /\ pc' = "sw_backfill"
                     /\ mem' = [op |-> "switchProvider", arg |-> id,
                                config |-> loaded.config]
                     /\ UNCHANGED result

\* Faulty variant of SwitchedConfig: the live settings are stored into the target
\* as well.
SwitchedConfig_StampsTarget(config, id, live) ==
    LET filled == IF NeedsBackfill(config, id)
                  THEN backfillCurrentProvider(config, live)
                  ELSE config
        i == FindIndex(config.providers, id)
    IN  [filled EXCEPT !.currentProviderId = Some(id),
                       !.providers[i].settingsConfig =
                            IF live.ok /\ live.present THEN live.settings ELSE @]

\* The config switchProvider hands to saveProviders: backfilled, pointer moved.
SwitchedConfig(config, id, live) ==
    LET filled == IF NeedsBackfill(config, id)
                  THEN backfillCurrentProvider(config, live)
                  ELSE config
    IN  [filled EXCEPT !.currentProviderId = Some(id)]

\* Faulty variant of SwitchBackfill: the live snapshot is written before the
\* provider store is saved.
SwitchBackfill_LiveFirst ==
    /\ pc = "sw_backfill"
    /\ UNCHANGED <<provFile, liveFile, tmpFiles, configDir, clock, pre>>
    /\ NoFault
    /\ LET id == mem.arg
           config == SwitchedConfig(mem.config, id, LoadSettingsOf(liveFile))
           targetProvider == config.providers[FindIndex(config.providers, id)]
       IN  EntersAtomicWrite("switchProvider", id, config, "settings", clock,
               StringifySettings(targetProvider.settingsConfig), "sw_live", Undefined)

\* switchProvider: the backfill, the pointer, and the entry into saveProviders
\* (lines 278-285).
SwitchBackfill ==
    /\ pc = "sw_backfill"
    /\ UNCHANGED <<provFile, liveFile, tmpFiles, configDir, clock, pre>>
    /\ LET id == mem.arg
           reads == NeedsBackfill(mem.config, id) /\ BackfillReadsLive(mem.config)
       IN  \/ /\ reads
              /\ liveFile # NoFile
              /\ Fault
              /\ Returns("switchProvider", id, "IOError", Undefined, At("backfill"))
           \/ /\ NoFault
              /\ LET live == LoadSettingsOf(liveFile)
                 IN  IF reads /\ ~live.ok
                     THEN Returns("switchProvider", id, live.error, Undefined, At("backfill"))
                     ELSE LET config == SwitchedConfig(mem.config, id, live)
                          IN  EntersAtomicWrite("switchProvider", id, config, "providers",
                                  clock, StringifyConfig(config), "sw_live", Undefined)

\* switchProvider: writeLiveSnapshot(targetProvider.settingsConfig) is entered
\* (line 288).
SwitchLive ==
    /\ pc = "sw_live"
    /\ UNCHANGED <<provFile, liveFile, tmpFiles, configDir, clock, pre, events>>
    /\ LET targetProvider == mem.config.providers[FindIndex(mem.config.providers, mem.arg)]
       IN  EntersAtomicWrite("switchProvider", mem.arg, mem.config, "settings", clock,
               StringifySettings(targetProvider.settingsConfig), "return", targetProvider)

\* captureCurrentAsProvider(name, description, category)
captureCurrentAsProvider(description, category, rnd) ==
    \E failed \in BOOLEAN :
    /\ Starts(failed)
    /\ UNCHANGED <<provFile, liveFile, tmpFiles>>
    /\ LET arg == <<"cap", description, category>>
           live == LoadSettingsOf(liveFile)
           loaded == LoadProvidersOf(provFile)
       IN  IF failed
           THEN /\ liveFile # NoFile
                /\ UNCHANGED configDir
                /\ Returns("captureCurrentAsProvider", arg, "IOError", Undefined, At("load"))
           ELSE IF ~live.ok
           THEN /\ UNCHANGED configDir
                /\ Returns("captureCurrentAsProvider", arg, live.error, Undefined,
                    At("load"))
           ELSE IF ~live.present
           THEN /\ UNCHANGED configDir
                /\ Returns("captureCurrentAsProvider", arg, "ok", Undefined, At("load"))
           ELSE /\ configDir' = TRUE
                /\ IF ~loaded.ok
                   THEN Returns("captureCurrentAsProvider", arg, loaded.error, Undefined, At("load"))
                   ELSE LET input == [name |-> "cap",
                                      settingsConfig |-> live.settings,
                                      description |-> description,
                                      category |-> category,
                                      icon |-> Undefined,
                                      iconColor |-> Undefined]
                            config == AppendProvider(loaded.config, input,
                                          generateId(clock, rnd), clock)
                        IN  EntersAtomicWrite("captureCurrentAsProvider", arg, config,
                                "providers", clock, StringifyConfig(config), "return",
                                config.providers[Len(config.providers)])

----------------------------------------------------------------------------
(* atomicWrite: the same code in both stores *)

PutFile(files, path, content) ==
    [q \in DOMAIN files \cup {path} |-> IF q = path THEN content ELSE files[q]]

DropFile(files, path) == [q \in DOMAIN files \ {path} |-> files[q]]

\* Faulty variant of AwWrite: the data is written to the target path itself.
AwWrite_InPlace ==
    /\ pc = "aw_write"
    /\ UNCHANGED <<configDir, clock, result, pre>>
    /\ \/ /\ NoFault
          /\ tmpFiles' = PutFile(tmpFiles, mem.tmpPath, mem.data)
          /\ pc' = "aw_rename"
          /\ UNCHANGED <<provFile, liveFile, mem>>
       \/ /\ Fault
          /\ IF mem.store = "providers"
             THEN provFile' = Partial /\ UNCHANGED liveFile
             ELSE liveFile' = Partial /\ UNCHANGED provFile
          /\ UNCHANGED tmpFiles
          /\ pc' = "aw_catch"
          /\ mem' = [mem EXCEPT !.error = "writeFile"]

\* await writeFile(tmpPath, data, "utf-8")
AwWrite ==
    /\ pc = "aw_write"
    /\ UNCHANGED <<provFile, liveFile, configDir, clock, result, pre>>
    /\ \/ /\ NoFault
          /\ tmpFiles' = PutFile(tmpFiles, mem.tmpPath, mem.data)
          /\ pc' = "aw_rename"
          /\ UNCHANGED mem
       \/ /\ Fault
          /\ tmpFiles' \in {tmpFiles, PutFile(tmpFiles, mem.tmpPath, Partial)}
          /\ pc' = "aw_catch"
          /\ mem' = [mem EXCEPT !.error = "writeFile"]

\* Faulty variant of AwRename: a copy and a delete instead of a rename, so that a
\* failure leaves the target truncated.
AwRename_CopyThenDelete ==
    /\ pc = "aw_rename"
    /\ UNCHANGED <<configDir, clock, pre>>
    /\ \/ /\ NoFault
          /\ mem.tmpPath \in DOMAIN tmpFiles
          /\ IF mem.store = "providers"
             THEN provFile' = tmpFiles[mem.tmpPath] /\ UNCHANGED liveFile
             ELSE liveFile' = tmpFiles[mem.tmpPath] /\ UNCHANGED provFile
          /\ tmpFiles' = DropFile(tmpFiles, mem.tmpPath)
          /\ IF mem.next = "return"
             THEN Returns(mem.op, mem.arg, "ok", mem.value,
                      AtWrite("return", mem.store, mem.tmpPath, FALSE))
             ELSE pc' = mem.next /\ UNCHANGED <<mem, result>>
       \/ /\ Fault
          /\ pc' = "aw_catch"
          /\ mem' = [mem EXCEPT !.error = "rename"]
          /\ IF mem.store = "providers"
             THEN provFile' = Partial /\ UNCHANGED liveFile
             ELSE liveFile' = Partial /\ UNCHANGED provFile
          /\ UNCHANGED <<tmpFiles, result>>

\* await rename(tmpPath, path)
AwRename ==
    /\ pc = "aw_rename"
    /\ UNCHANGED <<configDir, clock, pre>>
    /\ \/ /\ NoFault
          /\ mem.tmpPath \in DOMAIN tmpFiles
          /\ IF mem.store = "providers"
             THEN provFile' = tmpFiles[mem.tmpPath] /\ UNCHANGED liveFile
             ELSE liveFile' = tmpFiles[mem.tmpPath] /\ UNCHANGED provFile
          /\ tmpFiles' = DropFile(tmpFiles, mem.tmpPath)
          /\ IF mem.next = "return"
             THEN Returns(mem.op, mem.arg, "ok", mem.value,
                      AtWrite("return", mem.store, mem.tmpPath, FALSE))
             ELSE pc' = mem.next /\ UNCHANGED <<mem, result>>
       \/ /\ Fault
          /\ pc' = "aw_catch"
          /\ mem' = [mem EXCEPT !.error = "rename"]
          /\ UNCHANGED <<provFile, liveFile, tmpFiles, result>>

\* The catch block: if (existsSync(tmpPath)) unlink(tmpPath), any error of which
\* is ignored; then the caught error is thrown again.
AwCatch ==
    /\ pc = "aw_catch"
    /\ UNCHANGED <<provFile, liveFile, configDir, clock, pre, events>>
    /\ \E unlinkFailed \in BOOLEAN :
          /\ unlinkFailed => mem.tmpPath \in DOMAIN tmpFiles
          /\ tmpFiles' = IF unlinkFailed THEN tmpFiles ELSE DropFile(tmpFiles, mem.tmpPath)
          /\ Returns(mem.op, mem.arg, "IOError", Undefined,
                 AtWrite(mem.error, mem.store, mem.tmpPath, unlinkFailed))

----------------------------------------------------------------------------
(* The environment *)

\* A file changes outside any call: the outcome of the last call and the files it
\* started from are no longer spoken of.
Forgets ==
    /\ result' = NoResult
    /\ pre' = [prov |-> provFile', live |-> liveFile', tmp |-> tmpFiles]

\* The process is killed inside a call; a kill inside writeFile may leave a
\* truncated temporary file.
Kill ==
    /\ pc # "idle"
    /\ Fault
    /\ UNCHANGED <<provFile, liveFile, configDir, clock, pre>>
    /\ \/ tmpFiles' = tmpFiles
       \/ pc = "aw_write" /\ tmpFiles' = PutFile(tmpFiles, mem.tmpPath, Partial)
    /\ pc' = "idle"
    /\ result' = [op |-> mem.op, arg |-> mem.arg, status |-> "killed", value |-> Undefined,
                  at |-> IF pc \in {"sw_backfill", "sw_live"} THEN At(pc)
                         ELSE AtWrite(pc, mem.store, mem.tmpPath, FALSE)]
    /\ mem' = NoCall

\* Time passes between calls.
Tick ==
    /\ pc = "idle"
    /\ events < MaxEvents
    /\ events' = events + 1
    /\ clock' = clock + 1
    /\ UNCHANGED <<provFile, liveFile, tmpFiles, configDir, pc, mem, result, pre>>

\* The user (or the host application) edits the live settings file between calls.
EditLive ==
    /\ pc = "idle"
    /\ liveFile # E1
    /\ liveFile' = E1
    /\ UNCHANGED <<provFile, tmpFiles, configDir, clock, pc, mem, events>>
    /\ Forgets

\* The live settings file is deleted between calls.
DeleteLive ==
    /\ pc = "idle"
    /\ liveFile # NoFile
    /\ liveFile' = NoFile
    /\ UNCHANGED <<provFile, tmpFiles, configDir, clock, pc, mem, events>>
    /\ Forgets

\* A store file is damaged between calls: its text is no longer JSON.
CorruptLive ==
    /\ pc = "idle"
    /\ IsJson(liveFile)
    /\ liveFile' = Malformed
    /\ UNCHANGED <<provFile, tmpFiles, configDir, clock, pc, mem, events>>
    /\ Forgets

CorruptStore ==
    /\ pc = "idle"
    /\ IsJson(provFile)
    /\ Fault
    /\ provFile' = Malformed
    /\ UNCHANGED <<liveFile, tmpFiles, configDir, clock, pc, mem>>
    /\ Forgets

Next ==
    \/ \E input \in AddInputs, rnd \in RandomSuffixes : addProvider(input, rnd)
    \/ \E id \in CallIds, updates \in UpdateInputs : updateProvider(id, updates)
    \/ \E id \in CallIds : removeProvider(id)
    \/ \E id \in CallIds : getProvider(id)
    \/ \E name \in LookupNames : getProviderByName(name)
    \/ getCurrentProvider
    \/ \E id \in CallIds : switchProvider(id)
    \/ SwitchBackfill
    \/ SwitchLive
    \/ \E rnd \in RandomSuffixes : captureCurrentAsProvider(Undefined, Some("subscription"), rnd)
    \/ AwWrite
    \/ AwRename
    \/ AwCatch
    \/ Kill
    \/ Tick
    \/ EditLive
    \/ DeleteLive
    \/ CorruptLive
    \/ CorruptStore

Spec == Init /\ [][Next]_vars

----------------------------------------------------------------------------
(* Runs that start with two providers stored and the first one active *)

\* providers.json after addProvider(a), addProvider(b) and switchProvider to the first.
SwitchedStore ==
    LET a == CHOOSE input \in AddInputs : input.name = "a"
        b == CHOOSE input \in AddInputs : input.name = "b"
        empty == [providers |-> <<>>, currentProviderId |-> Undefined]
        added == AppendProvider(AppendProvider(empty, a, generateId(0, "r0"), 0),
                                b, generateId(0, "r1"), 0)
    IN  StringifyConfig(SwitchedConfig(added, generateId(0, "r0"), LoadSettingsOf(NoFile)))

\* The state those three calls leave: the live file holds the first provider's
\* settingsConfig.
InitSwitched ==
    /\ provFile = SwitchedStore
    /\ liveFile = StringifySettings(S1)
    /\ tmpFiles = NoFiles
    /\ configDir = TRUE
    /\ clock = 0
    /\ pc = "idle"
    /\ mem = NoCall
    /\ result = NoResult
    /\ pre = [prov |-> SwitchedStore, live |-> StringifySettings(S1), tmp |-> NoFiles]
    /\ events = 0

\* The files of InitSwitched, as the calls from the empty store reach them.
SwitchedFiles ==
    /\ provFile = SwitchedStore
    /\ liveFile = StringifySettings(S1)
    /\ tmpFiles = NoFiles
    /\ configDir
    /\ clock = 0
    /\ pc = "idle"

\* The step is no I/O error and no kill: no call throws except for an unknown id.
QuietStep ==
    /\ pc' # "aw_catch"
    /\ pc' = "idle" => result'.status \in {"none", "ok", "NotFound"}

\* The action A taken without a fault.
Quiet(A) == A /\ QuietStep

\* Calls only: nothing fails and nobody else touches the files.
CallsNext ==
    \/ Quiet(\E input \in AddInputs, rnd \in RandomSuffixes : addProvider(input, rnd))
    \/ Quiet(\E id \in CallIds, updates \in UpdateInputs : updateProvider(id, updates))
    \/ Quiet(\E id \in CallIds : removeProvider(id))
    \/ Quiet(\E id \in CallIds : switchProvider(id))
    \/ Quiet(SwitchBackfill)
    \/ Quiet(SwitchLive)
    \/ Quiet(\E rnd \in RandomSuffixes :
                captureCurrentAsProvider(Undefined, Some("subscription"), rnd))
    \/ Quiet(AwWrite)
    \/ Quiet(AwRename)
    \/ Tick

SpecCalls == InitSwitched /\ [][CallsNext]_vars

\* Switches only, which may fail or be killed at any step; no update, and nobody
\* else touches the files.
SwitchesNext ==
    \/ \E id \in CallIds : switchProvider(id)
    \/ SwitchBackfill
    \/ SwitchLive
    \/ AwWrite
    \/ AwRename
    \/ AwCatch
    \/ Kill
    \/ Tick

SpecSwitches == InitSwitched /\ [][SwitchesNext]_vars

----------------------------------------------------------------------------
(* Two writers in atomicWrite on the same target *)

\* Two invocations of the tool (or two unawaited calls) save the same file at the
\* same time.  Here pc and mem are functions of the writer, result is the
\* sequence of writers in the order their renames succeeded, and pre holds the
\* target and its content at the start.  writeFile is an open that creates or
\* truncates the file followed by the write of the data through the descriptor;
\* a descriptor follows its file when the file is renamed and loses it when the
\* file is unlinked or replaced.
Writers == {"w1", "w2"}

\* Text that is neither writer's data: the bytes of two writes through two
\* descriptors of one file.
Mixed == [mixed |-> TRUE]

\* The complete content each writer passes to atomicWrite.
RaceData(store, w) ==
    IF store = "providers"
    THEN StringifyConfig(AppendProvider(
             [providers |-> <<>>, currentProviderId |-> Undefined],
             CHOOSE input \in AddInputs : input.name = (IF w = "w1" THEN "a" ELSE "b"),
             generateId(0, "r0"), 0))
    ELSE IF w = "w1" THEN StringifySettings(S1) ELSE StringifySettings(S2)

\* What the target holds before the race, when it exists.
RacePrior(store) ==
    IF store = "providers"
    THEN StringifyConfig([providers |-> <<>>, currentProviderId |-> Undefined])
    ELSE StringifySettings(S3)

Target == IF pre.store = "providers" THEN provFile ELSE liveFile

SetTarget(content) ==
    IF pre.store = "providers"
    THEN provFile' = content /\ UNCHANGED liveFile
    ELSE liveFile' = content /\ UNCHANGED provFile

RaceInit ==
    \E store \in {"providers", "settings"} : \E prior \in {NoFile, RacePrior(store)} :
        /\ provFile = (IF store = "providers" THEN prior ELSE NoFile)
        /\ liveFile = (IF store = "settings" THEN prior ELSE NoFile)
        /\ tmpFiles = NoFiles
        /\ configDir = TRUE
        /\ clock = 0
        /\ pc = [w \in Writers |-> "call"]
        /\ mem = [w \in Writers |->
                    [data |-> RaceData(store, w), tmpPath |-> Undefined, fd |-> "none"]]
        /\ result = <<>>
        /\ pre = [store |-> store, content |-> prior]
        /\ events = 0

\* const timestamp = Date.now(); const tmpPath = join(dir, `...tmp.${timestamp}`)
RaceEnter(w) ==
    /\ pc[w] = "call"
    /\ pc' = [pc EXCEPT ![w] = "aw_open"]
    /\ mem' = [mem EXCEPT ![w].tmpPath = TmpPath(pre.store, clock)]
    /\ UNCHANGED <<provFile, liveFile, tmpFiles, configDir, clock, result, pre, events>>

\* writeFile, first half: the file at tmpPath is created, or truncated if it exists.
RaceOpen(w) ==
    /\ pc[w] = "aw_open"
    /\ tmpFiles' = PutFile(tmpFiles, mem[w].tmpPath, Partial)
    /\ pc' = [pc EXCEPT ![w] = "aw_write"]
    /\ mem' = [mem EXCEPT ![w].fd = "tmp"]
    /\ UNCHANGED <<provFile, liveFile, configDir, clock, result, pre, events>>

\* writeFile, second half: the data goes to the file the descriptor is open on,
\* from offset 0 and without truncation.
RaceWrite(w) ==
    /\ pc[w] = "aw_write"
    /\ pc' = [pc EXCEPT ![w] = "aw_rename"]
    /\ mem' = [mem EXCEPT ![w].fd = "none"]
    /\ UNCHANGED <<configDir, clock, result, pre, events>>
    /\ LET old == IF mem[w].fd = "tmp" THEN tmpFiles[mem[w].tmpPath] ELSE Target
       IN  \E new \in (IF old = Partial THEN {mem[w].data} ELSE {mem[w].data, Mixed}) :
              CASE mem[w].fd = "tmp" ->
                      /\ tmpFiles' = PutFile(tmpFiles, mem[w].tmpPath, new)
                      /\ UNCHANGED <<provFile, liveFile>>
                [] mem[w].fd = "target" ->
                      /\ SetTarget(new)
                      /\ UNCHANGED tmpFiles
                [] OTHER -> UNCHANGED <<provFile, liveFile, tmpFiles>>

\* await rename(tmpPath, path); ENOENT when the other writer took the file away.
RaceRename(w) ==
    /\ pc[w] = "aw_rename"
    /\ UNCHANGED <<configDir, clock, pre, events>>
    /\ IF mem[w].tmpPath \in DOMAIN tmpFiles
       THEN /\ SetTarget(tmpFiles[mem[w].tmpPath])
            /\ tmpFiles' = DropFile(tmpFiles, mem[w].tmpPath)
            /\ pc' = [pc EXCEPT ![w] = "done"]
            /\ mem' = [u \in Writers |->
                    IF mem[u].fd = "tmp" /\ mem[u].tmpPath = mem[w].tmpPath
                    THEN [mem[u] EXCEPT !.fd = "target"]
                    ELSE IF mem[u].fd = "target" THEN [mem[u] EXCEPT !.fd = "gone"]
                    ELSE mem[u]]
            /\ result' = Append(result, w)
       ELSE /\ pc' = [pc EXCEPT ![w] = "aw_catch"]
            /\ UNCHANGED <<provFile, liveFile, tmpFiles, mem, result>>

\* catch: if (existsSync(tmpPath)) unlink(tmpPath); throw error
RaceCatch(w) ==
    /\ pc[w] = "aw_catch"
    /\ tmpFiles' = DropFile(tmpFiles, mem[w].tmpPath)
    /\ pc' = [pc EXCEPT ![w] = "failed"]
    /\ mem' = [u \in Writers |->
            IF mem[u].fd = "tmp" /\ mem[u].tmpPath = mem[w].tmpPath
            THEN [mem[u] EXCEPT !.fd = "gone"]
            ELSE mem[u]]
    /\ UNCHANGED <<provFile, liveFile, configDir, clock, result, pre, events>>

\* A millisecond passes.
RaceTick ==
    /\ events < MaxEvents
    /\ events' = events + 1
    /\ clock' = clock + 1
    /\ UNCHANGED <<provFile, liveFile, tmpFiles, configDir, pc, mem, result, pre>>

RaceNext ==
    \/ \E w \in Writers : RaceEnter(w)
    \/ \E w \in Writers : RaceOpen(w)
    \/ \E w \in Writers : RaceWrite(w)
    \/ \E w \in Writers : RaceRename(w)
    \/ \E w \in Writers : RaceCatch(w)
    \/ RaceTick

SpecRace == RaceInit /\ [][RaceNext]_vars

----------------------------------------------------------------------------
(* Vocabulary of the properties *)

\* Read straight off the stored text, independently of the code's lookups.
HasId(ps, id) == \E i \in 1..Len(ps) : ps[i].id = id
FirstWithId(ps, id) == ps[CHOOSE i \in 1..Len(ps) :
                            ps[i].id = id /\ \A j \in 1..(i - 1) : ps[j].id # id]
ProvidersOf(f) == IF IsJson(f) THEN f.providers ELSE <<>>
HasPointer(f) == IsJson(f) /\ "currentProviderId" \in DOMAIN f

\* The call op has just ended / has just returned normally.
Ended(op) == pc = "idle" /\ result.op = op
Completed(op) == Ended(op) /\ result.status = "ok"

----------------------------------------------------------------------------
(* C1 *)

\* A switchProvider(t) has completed that was called with t stored, the pointer at
\* a stored provider c other than t, and the live file holding settings L.
C1_Case ==
    /\ Completed("switchProvider")
    /\ HasPointer(pre.prov)
    /\ pre.prov.currentProviderId # result.arg
    /\ HasId(pre.prov.providers, pre.prov.currentProviderId)
    /\ HasId(pre.prov.providers, result.arg)
    /\ IsJson(pre.live)

\* C1: after a completed switchTo(t) from a stored current provider c # t with live
\* content L, the stored settingsConfig of c is L, currentProviderId is t, and the
\* live file is the settingsConfig t had in the store before the call.
C1_SwitchBackfillsThenActivates ==
    C1_Case =>
        /\ IsJson(provFile)
        /\ HasId(provFile.providers, pre.prov.currentProviderId)
        /\ FirstWithId(provFile.providers, pre.prov.currentProviderId).settingsConfig = pre.live
        /\ HasPointer(provFile)
        /\ provFile.currentProviderId = result.arg
        /\ liveFile = FirstWithId(pre.prov.providers, result.arg).settingsConfig

\* The spec's scenario: the live file held an out-of-band edit that c's stored
\* settings did not have.
C1_Witness ==
    /\ C1_Case
    /\ pre.live = E1
    /\ FirstWithId(pre.prov.providers, pre.prov.currentProviderId).settingsConfig # E1
    /\ liveFile # E1

----------------------------------------------------------------------------
(* C2 *)

\* The store could be loaded: it is absent or holds JSON.
Loadable(f) == f = NoFile \/ IsJson(f)

\* C2: switchTo(id) with an id no stored provider has fails with the not-found
\* error, and the provider store and the live file are as before the call; the
\* call never gets past the lookup.
C2_SwitchUnknownIdFails ==
    /\ (/\ Ended("switchProvider")
        /\ Loadable(pre.prov)
        /\ ~HasId(ProvidersOf(pre.prov), result.arg)
        /\ result.status # "IOError")
       => (/\ result.status = "NotFound"
           /\ provFile = pre.prov
           /\ liveFile = pre.live
           /\ tmpFiles = pre.tmp)
    /\ (pc # "idle" /\ mem.op = "switchProvider")
       => HasId(ProvidersOf(pre.prov), mem.arg)

\* switchProvider of an unknown id on a store with providers and a pointer.
C2_Witness ==
    /\ Ended("switchProvider")
    /\ result.status = "NotFound"
    /\ HasPointer(pre.prov)
    /\ Len(pre.prov.providers) > 0
    /\ IsJson(pre.live)

----------------------------------------------------------------------------
(* C3 *)

InSwitch == pc # "idle" /\ mem.op = "switchProvider"

\* The outgoing provider is to be backfilled: the pointer is at a stored provider
\* other than t and the live file holds settings.
Backfills(t) ==
    /\ HasPointer(pre.prov)
    /\ pre.prov.currentProviderId # t
    /\ HasId(pre.prov.providers, pre.prov.currentProviderId)
    /\ IsJson(pre.live)

----------------------------------------------------------------------------
(* C4 *)

SwitchFailed ==
    Ended("switchProvider") /\ result.status \in {"NotFound", "ParseError", "IOError"}

\* C4 as stated: whenever switchTo fails at any of its steps (target lookup,
\* backfill read, persisting the provider store, writing the live file), the
\* persisted provider store and the live file are in their pre-switch state.
C4_FailedSwitchChangesNothing ==
    SwitchFailed => (provFile = pre.prov /\ liveFile = pre.live)

\* C4 as amended: a switchTo that fails at the lookup, at the backfill read or
\* while persisting the provider store leaves both files in their pre-switch
\* state; one that fails while writing the live file leaves the live file in its
\* pre-switch state and the provider store already persisted with
\* currentProviderId = target and the outgoing provider backfilled.
C4_FailedSwitchByStep ==
    SwitchFailed =>
        /\ liveFile = pre.live
        /\ IF result.at.store = "settings"
           THEN /\ HasPointer(provFile)
                /\ provFile.currentProviderId = result.arg
                /\ Backfills(result.arg) =>
                      FirstWithId(provFile.providers,
                          pre.prov.currentProviderId).settingsConfig = pre.live
           ELSE provFile = pre.prov

\* A switch has failed while writing the live file, after the store was persisted.
C4_Witness ==
    /\ SwitchFailed
    /\ result.at.store = "settings"
    /\ provFile # pre.prov
    /\ IsJson(pre.live)

----------------------------------------------------------------------------
(* C5 *)

InAtomicWrite == pc \in {"aw_write", "aw_rename", "aw_catch"}

\* An atomicWrite has thrown: the call ended with the error of writeFile or rename.
SaveThrew == pc = "idle" /\ result.status = "IOError" /\ result.at.store # "none"

\* The target of a save is untouched until its rename completes, whether the save
\* is still running, has thrown, or was killed; and no target ever holds a
\* truncated text.
C5_TargetIntact ==
    /\ provFile # Partial
    /\ liveFile # Partial
    /\ (InAtomicWrite /\ mem.store = "providers") => provFile = pre.prov
    /\ (InAtomicWrite /\ mem.store = "settings") => liveFile = pre.live
    /\ (pc = "idle" /\ result.status \in {"IOError", "killed"})
       => (/\ result.at.store = "providers" => provFile = pre.prov
           /\ result.at.store = "settings" => liveFile = pre.live
           /\ result.op # "switchProvider" => (provFile = pre.prov /\ liveFile = pre.live))

\* C5 as stated: the target is intact and, when the write or the rename returns an
\* error, the temporary file is deleted and that error is raised again.
C5_FailedSaveDeletesTemp ==
    /\ C5_TargetIntact
    /\ SaveThrew
       => (/\ result.at.step \in {"writeFile", "rename"}
           /\ result.at.tmpPath \notin DOMAIN tmpFiles)

\* C5 as amended: the target is intact and, when the write or the rename returns
\* an error, that error is raised again after an attempt to delete the temporary
\* file: the file is gone unless the unlink itself failed.
C5_FailedSaveTriesToDeleteTemp ==
    /\ C5_TargetIntact
    /\ SaveThrew
       => (/\ result.at.step \in {"writeFile", "rename"}
           /\ ~result.at.unlinkFailed => result.at.tmpPath \notin DOMAIN tmpFiles)

\* The rename over an existing provider store failed and the temporary file was
\* deleted.
C5_Witness ==
    /\ SaveThrew
    /\ result.at.step = "rename"
    /\ result.at.store = "providers"
    /\ ~result.at.unlinkFailed
    /\ IsJson(pre.prov)
    /\ provFile = pre.prov

----------------------------------------------------------------------------
(* C6 *)

\* The step starts removeProvider again with the id whose removal has just
\* returned true, and the store is read without an I/O error.
RepeatsRemove ==
    /\ Completed("removeProvider")
    /\ result.value = TRUE
    /\ events' > events
    /\ clock' = clock
    /\ \/ pc' = "idle" /\ result'.op = "removeProvider" /\ result'.arg = result.arg
                       /\ result'.status # "IOError"
       \/ pc' # "idle" /\ mem'.op = "removeProvider" /\ mem'.arg = result.arg

\* C6: remove(id) of the provider currentProviderId points at returns true and
\* leaves currentProviderId absent in the persisted store (and no provider with
\* that id); a second remove(id) returns false, writes nothing and leaves the
\* persisted config unchanged.
C6_RemoveCurrentThenAgain ==
    /\ [](/\ (/\ Completed("removeProvider")
              /\ HasPointer(pre.prov)
              /\ pre.prov.currentProviderId = result.arg
              /\ HasId(pre.prov.providers, result.arg))
             => (/\ result.value = TRUE
                 /\ IsJson(provFile)
                 /\ ~HasPointer(provFile)
                 /\ ~HasId(provFile.providers, result.arg))
          /\ (pc # "idle" /\ mem.op = "removeProvider")
             => HasId(ProvidersOf(pre.prov), mem.arg))
    /\ [][RepeatsRemove =>
            (/\ pc' = "idle"
             /\ result'.status = "ok"
             /\ result'.value = FALSE
             /\ result'.at.store = "none"
             /\ provFile' = provFile
             /\ liveFile' = liveFile
             /\ tmpFiles' = tmpFiles)]_vars

\* The second removal of the provider that was current has returned false: the
\* live file holds the settings a switch wrote, and the pointer is gone.
C6_Witness ==
    /\ Completed("removeProvider")
    /\ result.value = FALSE
    /\ result.arg # GhostId
    /\ IsJson(provFile)
    /\ ~HasPointer(provFile)
    /\ liveFile \in {S1, S2}

----------------------------------------------------------------------------
(* C7 *)

\* C7: starting from an absent provider store, in every state the calls reach, a
\* currentProviderId present in the persisted store is the id of a stored provider.
C7_PointerNeverDangles ==
    HasPointer(provFile) => HasId(provFile.providers, provFile.currentProviderId)

\* A provider other than the current one has been removed; the pointer stays.
C7_Witness ==
    /\ Completed("removeProvider")
    /\ result.value = TRUE
    /\ HasPointer(provFile)
    /\ HasPointer(pre.prov)

----------------------------------------------------------------------------
(* C8 *)

\* C8: every id in the persisted providers list is unique, however quickly the
\* providers were added.
C8_IdsUnique ==
    IsJson(provFile) =>
        \A i, j \in 1..Len(provFile.providers) :
            i # j => provFile.providers[i].id # provFile.providers[j].id

----------------------------------------------------------------------------
(* C9 *)

\* Member k of the stored provider new is as in old: absent in both or equal.
SameMember(old, new, k) ==
    /\ (k \in DOMAIN new) = (k \in DOMAIN old)
    /\ k \in DOMAIN old => new[k] = old[k]

\* updateProvider(id, updates) has returned true.
C9_Case == Completed("updateProvider") /\ result.value = TRUE

\* C9: update(id, partial) on an existing provider changes only the fields present
\* in partial among name, settingsConfig, description, category, icon, iconColor;
\* every omitted field, id and createdAt keep their value; the other providers and
\* currentProviderId are unchanged.
C9_UpdateChangesOnlyGivenFields ==
    C9_Case =>
        LET id == result.arg[1]
            updates == result.arg[2]
            olds == pre.prov.providers
            news == provFile.providers
            i == CHOOSE n \in 1..Len(olds) :
                    olds[n].id = id /\ \A m \in 1..(n - 1) : olds[m].id # id
        IN  /\ IsJson(pre.prov) /\ IsJson(provFile)
            /\ HasId(olds, id)
            /\ Len(news) = Len(olds)
            /\ \A n \in 1..Len(olds) : n # i => news[n] = olds[n]
            /\ \A k \in MutableKeys :
                  IF updates[k] # Undefined
                  THEN k \in DOMAIN news[i] /\ news[i][k] = updates[k][1]
                  ELSE SameMember(olds[i], news[i], k)
            /\ SameMember(olds[i], news[i], "id")
            /\ SameMember(olds[i], news[i], "createdAt")
            /\ DOMAIN news[i] \subseteq ProviderKeys
            /\ HasPointer(provFile) = HasPointer(pre.prov)
            /\ HasPointer(pre.prov) =>
                  provFile.currentProviderId = pre.prov.currentProviderId
            /\ liveFile = pre.live

\* Only the name of a provider that has a description and an icon was updated,
\* with another provider stored.
C9_Witness ==
    /\ C9_Case
    /\ result.arg[2].name # Undefined
    /\ result.arg[2].icon = Undefined
    /\ Len(provFile.providers) > 1
    /\ "icon" \in DOMAIN FirstWithId(provFile.providers, result.arg[1])
    /\ "description" \in DOMAIN FirstWithId(provFile.providers, result.arg[1])

----------------------------------------------------------------------------
(* C10 *)

\* C10: update(id, partial) with an id no stored provider has returns false,
\* writes nothing and leaves the persisted ProvidersConfig unchanged; the call
\* enters a save only for a stored id.
C10_UpdateUnknownIdDoesNothing ==
    /\ (/\ Completed("updateProvider")
        /\ ~HasId(ProvidersOf(pre.prov), result.arg[1]))
       => (/\ result.value = FALSE
           /\ result.at.store = "none"
           /\ provFile = pre.prov
           /\ liveFile = pre.live
           /\ tmpFiles = pre.tmp)
    /\ (pc # "idle" /\ mem.op = "updateProvider")
       => HasId(ProvidersOf(pre.prov), mem.arg[1])

\* An update of an unknown id on a store that holds providers has returned false.
C10_Witness ==
    /\ Completed("updateProvider")
    /\ result.value = FALSE
    /\ IsJson(provFile)
    /\ Len(provFile.providers) > 0

----------------------------------------------------------------------------
(* C11 *)

\* The persisted pointer is as it was when the call started.
SamePointer ==
    /\ HasPointer(provFile) = HasPointer(pre.prov)
    /\ HasPointer(pre.prov) => provFile.currentProviderId = pre.prov.currentProviderId

\* C11: captureCurrentAsProvider returns absent and adds no provider when the live
\* file does not exist; when the live file holds L it appends exactly one provider
\* whose settingsConfig is L; in both cases currentProviderId, the live file and
\* the providers stored before are unchanged.
C11_CaptureAddsLiveOrNothing ==
    Completed("captureCurrentAsProvider") =>
        IF pre.live = NoFile
        THEN /\ result.value = Undefined
             /\ provFile = pre.prov
             /\ liveFile = pre.live
             /\ tmpFiles = pre.tmp
        ELSE LET olds == ProvidersOf(pre.prov)
                 news == ProvidersOf(provFile)
             IN  /\ IsJson(pre.live)
                 /\ IsJson(provFile)
                 /\ Len(news) = Len(olds) + 1
                 /\ \A i \in 1..Len(olds) : news[i] = olds[i]
                 /\ news[Len(news)].settingsConfig = pre.live
                 /\ result.value # Undefined
                 /\ result.value.settingsConfig = pre.live
                 /\ SamePointer
                 /\ liveFile = pre.live

\* The live file as a switch wrote it and the user then edited it was captured
\* next to the current provider.
C11_Witness ==
    /\ Completed("captureCurrentAsProvider")
    /\ pre.live = E1
    /\ HasPointer(provFile)
    /\ Len(provFile.providers) = 2
    /\ provFile.providers[2].settingsConfig = E1

\* A capture without a live file has returned absent, with a provider stored.
C11_WitnessAbsent ==
    /\ Completed("captureCurrentAsProvider")
    /\ pre.live = NoFile
    /\ Len(ProvidersOf(provFile)) > 0

----------------------------------------------------------------------------
(* C12 *)

\* Who stands where in a stored list.
IdsOf(ps) == [i \in 1..Len(ps) |-> ps[i].id]

\* C12: the providers list keeps creation order: add (and capture) appends at the
\* end, update and switchTo leave every provider at its position, remove deletes
\* the entries with the given id and keeps the others in their order.
C12_CreationOrderKept ==
    LET olds == ProvidersOf(pre.prov)
        news == ProvidersOf(provFile)
        appended == /\ Len(news) = Len(olds) + 1
                    /\ SubSeq(news, 1, Len(olds)) = olds
                    /\ news[Len(news)].id = result.value.id
    IN  /\ Completed("addProvider") => appended
        /\ (Completed("captureCurrentAsProvider") /\ result.value # Undefined) => appended
        /\ (Completed("updateProvider") /\ result.value = TRUE) => IdsOf(news) = IdsOf(olds)
        /\ Completed("switchProvider") => IdsOf(news) = IdsOf(olds)
        /\ Completed("removeProvider") =>
              news = SelectSeq(olds, LAMBDA q : q.id # result.arg)

\* The second of three providers was removed: the first and the third remain, in
\* that order.
C12_Witness ==
    /\ Completed("removeProvider")
    /\ result.value = TRUE
    /\ Len(ProvidersOf(pre.prov)) = 3
    /\ pre.prov.providers[2].id = result.arg
    /\ pre.prov.providers[1].id # result.arg
    /\ pre.prov.providers[3].id # result.arg
    /\ provFile.providers = <<pre.prov.providers[1], pre.prov.providers[3]>>

----------------------------------------------------------------------------
(* C13 *)

RaceOver == \A w \in Writers : pc[w] \in {"done", "failed"}

\* C13: when two writers race on one target through atomicWrite, the target never
\* holds partial or mixed content, and once both are through it holds the
\* complete content of the writer whose rename came last.
C13_RaceWholeFileLastRenameWins ==
    /\ Target \in {pre.content} \cup {mem[w].data : w \in Writers}
    /\ (RaceOver /\ result # <<>>) => Target = mem[result[Len(result)]].data

\* The same, for two writers whose temporary paths differ.
C13_WholeFileWhenPathsDiffer ==
    (\A w \in Writers : pc[w] # "call") /\ mem["w1"].tmpPath # mem["w2"].tmpPath
        => C13_RaceWholeFileLastRenameWins

----------------------------------------------------------------------------
(* C14 *)

\* C14: no two atomicWrite calls use the same temporary path, also when both
\* start within one clock tick.
C14_TmpPathsDistinct ==
    \A w, u \in Writers :
        (w # u /\ pc[w] # "call" /\ pc[u] # "call") => mem[w].tmpPath # mem[u].tmpPath

----------------------------------------------------------------------------
(* C15 *)

\* switchProvider was interrupted (killed, or its live write failed) after
\* providers.json was renamed and before settings.json was.
SwitchCutBeforeLive ==
    /\ Ended("switchProvider")
    /\ result.status \in {"killed", "IOError"}
    /\ result.at.step = "sw_live" \/ result.at.store = "settings"

\* C15: a switchTo(t) interrupted after the ProvidersConfig is persisted and before
\* the live file is written leaves currentProviderId = t persisted, naming a stored
\* provider, and the live file as it was; a completed switchTo(t) that finds the
\* pointer at t writes t's stored settingsConfig to the live file and leaves the
\* persisted config, so every provider's settingsConfig, unchanged.
C15_InterruptedSwitchRecovers ==
    /\ SwitchCutBeforeLive =>
          /\ HasPointer(provFile)
          /\ provFile.currentProviderId = result.arg
          /\ HasId(provFile.providers, result.arg)
          /\ liveFile = pre.live
    /\ (/\ Completed("switchProvider")
        /\ HasPointer(pre.prov)
        /\ pre.prov.currentProviderId = result.arg)
       => /\ provFile = pre.prov
          /\ liveFile = FirstWithId(pre.prov.providers, result.arg).settingsConfig

\* The switch was run again after a kill inside the write of the live file: the
\* pointer was already at the target, the live file was missing and the truncated
\* temporary file of the interrupted write was still there.
C15_Witness ==
    /\ Completed("switchProvider")
    /\ HasPointer(pre.prov)
    /\ pre.prov.currentProviderId = result.arg
    /\ pre.live = NoFile
    /\ \E q \in DOMAIN pre.tmp : q[1] = "settings" /\ pre.tmp[q] = Partial
    /\ IsJson(liveFile)

\* The interrupted state itself.
C15_WitnessCut ==
    /\ SwitchCutBeforeLive
    /\ result.status = "killed"
    /\ liveFile = NoFile

----------------------------------------------------------------------------
(* C16 *)

\* The file exists and its text is not JSON.
Unparsable(f) == f # NoFile /\ ~IsJson(f)

\* The operations that begin with loadProviders.
StoreOps == {"addProvider", "updateProvider", "removeProvider", "switchProvider",
             "getProvider", "getProviderByName", "getCurrentProvider"}

\* The call ended without returning, and no file is other than when it started.
FailedWithoutWriting ==
    /\ result.status \in {"ParseError", "IOError", "killed"}
    /\ provFile = pre.prov
    /\ liveFile = pre.live
    /\ tmpFiles = pre.tmp

\* The switch (running or ended) has to read the live file for its backfill: a
\* stored provider other than the target is current.
BackfillDue(t) ==
    /\ HasId(ProvidersOf(pre.prov), t)
    /\ HasPointer(pre.prov)
    /\ pre.prov.currentProviderId # t
    /\ HasId(pre.prov.providers, pre.prov.currentProviderId)

\* C16: a store file that exists and is not valid JSON is never read as absent or
\* empty: every operation that loads it fails at the load, and a switch whose
\* backfill reads a malformed live file fails there, without writing any file.
C16_MalformedFileFailsTheCall ==
    /\ \A op \in StoreOps :
          (Ended(op) /\ Unparsable(pre.prov)) =>
              FailedWithoutWriting /\ result.status # "killed" /\ result.at.step = "load"
    /\ (Ended("captureCurrentAsProvider")
            /\ (Unparsable(pre.live) \/ (IsJson(pre.live) /\ Unparsable(pre.prov))))
          => FailedWithoutWriting /\ result.status # "killed" /\ result.at.step = "load"
    /\ (Ended("switchProvider") /\ Unparsable(pre.live) /\ BackfillDue(result.arg))
          => FailedWithoutWriting /\ result.at.step \in {"load", "backfill", "sw_backfill"}
    /\ pc # "idle" => ~Unparsable(pre.prov)
    /\ (pc # "idle" /\ mem.op = "switchProvider" /\ Unparsable(pre.live) /\ BackfillDue(mem.arg))
          => pc = "sw_backfill"

\* A switch away from the current provider has failed on a malformed live file.
C16_Witness ==
    /\ Ended("switchProvider")
    /\ result.status = "ParseError"
    /\ result.at.step = "backfill"
    /\ liveFile = Malformed
    /\ HasPointer(provFile)

\* An add has failed on a malformed provider store.
C16_WitnessStore ==
    /\ Ended("addProvider")
    /\ result.status = "ParseError"
    /\ provFile = Malformed

----------------------------------------------------------------------------
(* C17 *)

ReadOnlyOps == {"getProvider", "getProviderByName", "getCurrentProvider"}

\* C17: when providers.json does not exist, load does not fail and gives an empty
\* providers list without currentProviderId; the file is created neither by load
\* nor by a read-only operation, and appears with the first completed save.
C17_FirstRunLoad ==
    /\ \A op \in StoreOps :
          (Ended(op) /\ pre.prov = NoFile) => result.at.step # "load"
    /\ \A op \in ReadOnlyOps :
          (Ended(op) /\ pre.prov = NoFile) =>
              /\ result.status = "ok"
              /\ result.value = Undefined
              /\ provFile = NoFile
              /\ tmpFiles = pre.tmp
              /\ liveFile = pre.live
    /\ \A op \in {"updateProvider", "removeProvider"} :
          (Ended(op) /\ pre.prov = NoFile) =>
              result.status = "ok" /\ result.value = FALSE /\ provFile = NoFile
    /\ (Ended("switchProvider") /\ pre.prov = NoFile) =>
          result.status = "NotFound" /\ provFile = NoFile
    /\ (Completed("addProvider") /\ pre.prov = NoFile) =>
          /\ IsJson(provFile)
          /\ Len(provFile.providers) = 1
          /\ ~HasPointer(provFile)
    /\ (pre.prov = NoFile /\ provFile # NoFile) =>
          /\ pc = "idle"
          /\ result.op \in {"addProvider", "captureCurrentAsProvider"}
          /\ result.status = "ok"
          /\ result.at.step = "return"
          /\ result.at.store = "providers"

\* A lookup on a machine without providers.json has returned absent; the
\* directory exists, the file does not.
C17_Witness ==
    /\ \E op \in ReadOnlyOps : Completed(op)
    /\ pre.prov = NoFile
    /\ provFile = NoFile
    /\ configDir

\* The first save has created the file.
C17_WitnessFirstSave ==
    /\ Completed("addProvider")
    /\ pre.prov = NoFile
    /\ IsJson(provFile)

----------------------------------------------------------------------------
(* C18 *)

\* A switch to result.arg has ended that started with another stored provider
\* current and no live file.
C18_Case ==
    /\ Ended("switchProvider")
    /\ BackfillDue(result.arg)
    /\ pre.live = NoFile

\* C18: switchTo(t) with another provider c current and the live file absent skips
\* the backfill without error: the call succeeds unless a write fails or the
\* process is killed, c's stored settingsConfig (every provider) is unchanged,
\* currentProviderId becomes t and the live file is created with t's settingsConfig.
C18_AbsentLiveSkipsBackfill ==
    /\ C18_Case => result.at.step \notin {"load", "lookup", "backfill"}
                       \/ (result.at.step = "load" /\ result.status = "IOError")
    /\ (C18_Case /\ result.status = "ok") =>
          /\ IsJson(provFile)
          /\ provFile.providers = pre.prov.providers
          /\ HasPointer(provFile)
          /\ provFile.currentProviderId = result.arg
          /\ liveFile = FirstWithId(pre.prov.providers, result.arg).settingsConfig
          /\ result.value.id = result.arg

\* Such a switch has completed.
C18_Witness ==
    /\ C18_Case
    /\ result.status = "ok"
    /\ IsJson(liveFile)
    /\ provFile.currentProviderId # pre.prov.currentProviderId

----------------------------------------------------------------------------
(* C19 *)

\* Position of the provider the pointer named when the call started (its first
\* entry), 0 when there was no pointer.
PreviousCurrent ==
    IF HasPointer(pre.prov) /\ HasId(pre.prov.providers, pre.prov.currentProviderId)
    THEN CHOOSE i \in 1..Len(pre.prov.providers) :
            /\ pre.prov.providers[i].id = pre.prov.currentProviderId
            /\ \A j \in 1..(i - 1) : pre.prov.providers[j].id # pre.prov.currentProviderId
    ELSE 0

\* C19: a completed switchTo(t) changes in the persisted store only
\* currentProviderId and the settingsConfig of the previously current provider:
\* the number and order of providers, every other member of every provider, and
\* the settingsConfig of every other provider (t included) are unchanged.
C19_SwitchFrame ==
    Completed("switchProvider") =>
        LET olds == pre.prov.providers
            news == provFile.providers
        IN  /\ IsJson(pre.prov) /\ IsJson(provFile)
            /\ DOMAIN provFile \subseteq {"providers", "currentProviderId"}
            /\ Len(news) = Len(olds)
            /\ \A i \in 1..Len(olds) :
                  /\ DOMAIN news[i] = DOMAIN olds[i]
                  /\ \A k \in ProviderKeys \ {"settingsConfig"} :
                        SameMember(olds[i], news[i], k)
                  /\ i # PreviousCurrent => news[i] = olds[i]
            /\ PreviousCurrent # 0 /\ olds[PreviousCurrent].id = result.arg
                  => news = olds

\* A switch has stored the edited live file into the outgoing provider, with the
\* target's entry (which has a description and an icon) untouched.
C19_Witness ==
    /\ Completed("switchProvider")
    /\ PreviousCurrent # 0
    /\ pre.live = E1
    /\ provFile.providers[PreviousCurrent].settingsConfig = E1
    /\ pre.prov.providers[PreviousCurrent].settingsConfig # E1
    /\ "icon" \in DOMAIN FirstWithId(provFile.providers, result.arg)

----------------------------------------------------------------------------
(* C20 *)

\* A switch has completed that started with a stored provider current and a
\* parsable live file.
C20_Case ==
    /\ Completed("switchProvider")
    /\ PreviousCurrent # 0
    /\ IsJson(pre.live)

\* C20: whenever currentProviderId names a stored provider c and the live file
\* holds L before a completed switchTo(t), afterwards L is the stored
\* settingsConfig of c, for every t, t = c included.
C20_SwitchNeverDiscardsLive ==
    C20_Case => provFile.providers[PreviousCurrent].settingsConfig = pre.live

\* C20 as the code has it: for t # c the stored settingsConfig of c is L; for
\* t = c nothing is backfilled: c's stored settingsConfig stays and replaces L in
\* the live file.
C20_SwitchKeepsLiveOfOutgoing ==
    C20_Case =>
        LET c == pre.prov.providers[PreviousCurrent]
        IN  IF c.id # result.arg
            THEN provFile.providers[PreviousCurrent].settingsConfig = pre.live
            ELSE /\ provFile.providers[PreviousCurrent].settingsConfig = c.settingsConfig
                 /\ liveFile = c.settingsConfig

\* A switch to the provider that was already current has replaced an edited live
\* file by the stored settings.
C20_Witness ==
    /\ C20_Case
    /\ pre.prov.providers[PreviousCurrent].id = result.arg
    /\ pre.live = E1
    /\ liveFile # E1
    /\ \A i \in 1..Len(provFile.providers) : provFile.providers[i].settingsConfig # E1

----------------------------------------------------------------------------
(* C21 *)

\* C21: with no edits of the live file from outside, after any sequence of
\* completed calls the live file equals the stored settingsConfig of the provider
\* currentProviderId names, and a completed switchTo another provider leaves the
\* outgoing provider's stored settingsConfig (such as one written by update) as
\* it was.
C21_LiveFileIsCurrentProvider ==
    /\ (pc = "idle" /\ HasPointer(provFile)
            /\ HasId(provFile.providers, provFile.currentProviderId))
          => liveFile = FirstWithId(provFile.providers,
                                    provFile.currentProviderId).settingsConfig
    /\ (Completed("switchProvider") /\ PreviousCurrent # 0)
          => provFile.providers[PreviousCurrent].settingsConfig
                = pre.prov.providers[PreviousCurrent].settingsConfig

\* The second half alone: a switch away keeps what update stored.
C21_SwitchKeepsUpdate ==
    (Completed("switchProvider") /\ PreviousCurrent # 0)
        => provFile.providers[PreviousCurrent].settingsConfig
              = pre.prov.providers[PreviousCurrent].settingsConfig

----------------------------------------------------------------------------
(* C22 *)

\* The settingsConfig addProvider was given for the provider of that name.
CreatedWith(name) == (CHOOSE input \in AddInputs : input.name = name).settingsConfig

\* C22: in any sequence of switchTo calls without update and without edits of the
\* live file from outside, switches that fail or are killed between the two
\* writes included, every provider's stored settingsConfig stays the one it was
\* created with.
C22_NoCrossContamination ==
    IsJson(provFile) =>
        \A i \in 1..Len(provFile.providers) :
            provFile.providers[i].settingsConfig = CreatedWith(provFile.providers[i].name)

====
